---- MODULE Spec2Model ----
(***************************************************************************)
(* A model of voronoi-hex: the complex derivation of topology.py, the      *)
(* relative simplicial homology of simplicialHomology.py (the rank-only    *)
(* path behind betti), the board of board.py and the game of game.py as    *)
(* driven by the click handler of gui.py.                                  *)
(*                                                                         *)
(* A vertex is a natural number.  A pset of vertices is a set; a Python    *)
(* list or tuple of vertices is a sequence.  A complex (pset of psets) is  *)
(* a set of sets of vertices.                                              *)
(***************************************************************************)
EXTENDS Integers, Sequences, FiniteSets

VARIABLES
    iterOrder,  \* the order in which this run iterates an unordered collection
    board,      \* Board: cycles, blue_base, red_base
    blue,       \* Game.blue, the blue territory complex
    red,        \* Game.red, the red territory complex
    nextPlayer, \* the player the iterator Game.__player yields next
    disabled,   \* the cells whose canvas polygon is in state "disabled"
    text,       \* Text.string_var, the last homology summary shown
    input,      \* the argument of a library call under check
    output      \* what that call returned

vars == <<iterOrder, board, blue, red, nextPlayer, disabled, text, input, output>>

-----------------------------------------------------------------------------
(* Bounds of the model.                                                    *)

\* The vertices of the complexes handed to the library functions: 0..NumVerts-1.
NumVerts == 4

\* The number of cells of the board (settings.BOARD_SIZE control points).
BOARD_SIZE == 4

Verts == 0 .. (NumVerts - 1)

\* Iteration of a set, pset or dict is in an order Python leaves unspecified:
\* a run iterates a collection either in one fixed enumeration of its
\* elements ("fwd") or in the reverse of it ("rev").
IterOrders == {"fwd", "rev"}

-----------------------------------------------------------------------------
(* Sequences and orders.                                                   *)

Range(q) == {q[i] : i \in DOMAIN q}

Min(S) == CHOOSE x \in S : \A y \in S : x <= y

Max(S) == CHOOSE x \in S : \A y \in S : y <= x

Reverse(q) == [i \in 1 .. Len(q) |-> q[Len(q) + 1 - i]]

\* sorted(value): the ascending list of a list of distinct vertices.
RECURSIVE SortedOfSet(_)
SortedOfSet(S) ==
    IF S = {} THEN <<>> ELSE LET m == Min(S) IN <<m>> \o SortedOfSet(S \ {m})

sorted(value) == SortedOfSet(Range(value))

\* One fixed enumeration of a finite set.
RECURSIVE Enumeration(_)
Enumeration(S) ==
    IF S = {} THEN <<>>
    ELSE LET x == CHOOSE y \in S : TRUE IN <<x>> \o Enumeration(S \ {x})

\* list(S), iter(S): the elements of an unordered collection in the order
\* this run iterates it.
IterateIn(order, S) ==
    IF order = "fwd" THEN Enumeration(S) ELSE Reverse(Enumeration(S))

Iterate(S) == IterateIn(iterOrder, S)

\* toolz.first: the first element an iteration yields (StopIteration when
\* there is none: see Raises_faces_from_edges).
first(q) == q[1]

-----------------------------------------------------------------------------
(* topology.py: deriving complexes from polygon cycles.                    *)

\* sliding_window(2) over a list: its consecutive pairs.
sliding_window2(q) == [i \in 1 .. (IF Len(q) = 0 THEN 0 ELSE Len(q) - 1) |-> <<q[i], q[i + 1]>>]

\* pipe(c, cycle, sliding_window(2), take(len(c)), map(pset), pset): the
\* first len(c) windows of c repeated for ever; a window (a, a) is the pset {a}.
edges_from_cycle(c) ==
    {{c[i], c[(i % Len(c)) + 1]} : i \in 1 .. Len(c)}

edges_from_cycles(cs) == UNION {edges_from_cycle(c) : c \in cs}

verts_from_edges(xs) == {{v} : v \in UNION xs}

outer_edges_from_cycle(c) == {Range(w) : w \in Range(sliding_window2(c))}

\* c[1:], which is empty for an empty c.
Rest(c) == IF Len(c) = 0 THEN <<>> ELSE Tail(c)

\* The lambda reads c[0] only when there is an outer edge to map.
face_from_cycle(c) == {t \cup {c[1]} : t \in outer_edges_from_cycle(Rest(c))}

\* v0 = pipe(es, first, first): the first vertex of the first edge that the
\* iteration of the pset yields.
ApexOfEdgesIn(order, es) == first(IterateIn(order, first(IterateIn(order, es))))

FacesFromEdgesIn(order, es) ==
    LET v0 == ApexOfEdgesIn(order, es)
    IN  {t \cup {v0} : t \in {e \in es : v0 \notin e}}

ApexOfEdges(es) == ApexOfEdgesIn(iterOrder, es)

faces_from_edges(es) == FacesFromEdgesIn(iterOrder, es)

\* What faces_from_edges raises: first is next(iter(seq)), which raises
\* StopIteration on an empty es or an empty first edge.
Raises_faces_from_edges(es) ==
    IF es = {} THEN "StopIteration"
    ELSE IF first(Iterate(es)) = {} THEN "StopIteration" ELSE "none"

\* A slip in powerset: the tuple and its facets only.
powerset_Facets(x) == {x} \cup {x \ {v} : v \in x}

\* more_itertools.powerset yields every sub-tuple, the empty one first.
powerset(x) == SUBSET x

closure(xs) == UNION {powerset(x) : x \in xs}

-----------------------------------------------------------------------------
(* simplicialHomology.py: boundary matrices and the rank-only homology.    *)

\* An optional argument: None, or Some(x).
None == <<>>

Some(x) == <<x>>

\* it.combinations(t, r): the sub-tuples of t of length r, in t's order.
Combinations(t, r) ==
    {[i \in 1 .. r |-> t[SortedOfSet(I)[i]]] :
        I \in {J \in SUBSET (1 .. Len(t)) : Cardinality(J) = r}}

\* A slip in ksimplices: relative is never subtracted.
ksimplices_Absolute(toplexes, k, relative) ==
    Iterate(UNION {Combinations(t, k + 1) : t \in toplexes})

\* The k-simplices of the toplexes that are not in relative, as the list of
\* a set of tuples.  relative is a set of tuples (empty for None).
ksimplices(toplexes, k, relative) ==
    Iterate((UNION {Combinations(t, k + 1) : t \in toplexes}) \ relative)

\* An integer matrix (np.ndarray of int8) is [nrows, ncols, cols]: cols is
\* the list of its columns, each the set of <<r, x>> with x the non-zero
\* entry of the column in row r (rows and columns are numbered from 1).
zeros(r, c) == [nrows |-> r, ncols |-> c, cols |-> [j \in 1 .. c |-> {}]]

\* bndry[r, c]
Entry(m, r, c) ==
    IF \E p \in m.cols[c] : p[1] = r
    THEN (CHOOSE p \in m.cols[c] : p[1] = r)[2]
    ELSE 0

\* A slip in boundary: indexLst is not reversed, so that position j holds
\* the face without the element at position k - j.
FaceOmitting_Unreversed(splx, j) ==
    [i \in 1 .. (Len(splx) - 1) |-> IF i <= (Len(splx) - 1 - j) THEN splx[i] ELSE splx[i + 1]]

\* The tuple without its element at (0-based) position j: row j of the
\* reversed indexLst applied to the simplex.
FaceOmitting(splx, j) ==
    [i \in 1 .. (Len(splx) - 1) |-> IF i <= j THEN splx[i] ELSE splx[i + 1]]

\* A slip in coefLst: every coefficient +1.
coefLst_Unsigned(j) == 1

\* coefLst: +1 at even positions, -1 at odd ones.
coefLst(j) == IF j % 2 = 0 THEN 1 ELSE -1

\* km1Dict.get(str(face), -1) + 1: the row of a face, 0 for a face without
\* one.  str is injective on lists of integers, so the list is the key.
RowOf(km1chain, face) ==
    IF \E r \in 1 .. Len(km1chain) : km1chain[r] = face
    THEN CHOOSE r \in 1 .. Len(km1chain) : km1chain[r] = face
    ELSE 0

\* The column of one k-simplex: bndry[row, colIdx] = coef for each face with
\* a row, in the order of indexLst; the last assignment to an entry stands.
BoundaryColumn(km1chain, splx) ==
    LET k == Len(splx) - 1
        rowInd == {<<RowOf(km1chain, FaceOmitting(splx, j)), j>> : j \in 0 .. k}
        rows == {h[1] : h \in rowInd} \ {0}
    IN  {<<r, coefLst(Max({h[2] : h \in {g \in rowInd : g[1] = r}}))>> : r \in rows}

RECURSIVE BoundaryColumns(_, _, _)
BoundaryColumns(km1chain, kchain, c) ==
    IF c > Len(kchain) THEN <<>>
    ELSE <<BoundaryColumn(km1chain, kchain[c])>> \o BoundaryColumns(km1chain, kchain, c + 1)

\* boundary(toplexes, k, relative, km1chain): <<bndry, kchain>>, where the
\* second component is None in the degenerate case.
boundary(toplexes, k, relative, km1chainArg) ==
    LET kchain == ksimplices(toplexes, k, relative)
        km1chain == IF km1chainArg = None
                    THEN ksimplices(toplexes, k - 1, relative)
                    ELSE km1chainArg[1]
    IN  IF k <= 0 \/ Len(kchain) = 0 \/ Len(km1chain) = 0
        THEN <<zeros(0, Len(kchain)), None>>
        ELSE <<[nrows |-> Len(km1chain), ncols |-> Len(kchain),
                cols |-> BoundaryColumns(km1chain, kchain, 1)],
               Some(kchain)>>

\* A sparse vector is a set of <<r, x>>, x # 0, with one pair per row.
CoefAt(v, r) ==
    IF \E p \in v : p[1] = r THEN (CHOOSE p \in v : p[1] = r)[2] ELSE 0

Pivot(v) == Min({p[1] : p \in v})

\* b[p] * v - v[p] * b, which is zero in row p.
Eliminate(v, b, p) ==
    LET bp == CoefAt(b, p)
        vp == CoefAt(v, p)
        rows == {q[1] : q \in v \cup b}
        all == {<<r, bp * CoefAt(v, r) - vp * CoefAt(b, r)>> : r \in rows}
    IN  {q \in all : q[2] # 0}

\* v reduced by the vectors of basis, a set of <<pivot row, vector>>.
RECURSIVE ReduceVector(_, _)
ReduceVector(v, basis) ==
    IF v = {} THEN v
    ELSE LET p == Pivot(v)
         IN  IF \E b \in basis : b[1] = p
             THEN ReduceVector(Eliminate(v, (CHOOSE b \in basis : b[1] = p)[2], p), basis)
             ELSE v

RECURSIVE RankFrom(_, _, _)
RankFrom(cols, c, basis) ==
    IF c > Len(cols) THEN Cardinality(basis)
    ELSE LET v == ReduceVector(cols[c], basis)
         IN  IF v = {} THEN RankFrom(cols, c + 1, basis)
             ELSE RankFrom(cols, c + 1, basis \cup {<<Pivot(v), v>>})

\* np.linalg.matrix_rank(m, tol): the number of singular values above tol,
\* which for these small integer matrices is the exact rank, computed here
\* by fraction-free elimination of the columns.
matrix_rank(m) == RankFrom(m.cols, 1, {})

\* ndarray.size
size(m) == m.nrows * m.ncols

\* A slip in homologyRankOnly: b1.shape[0] in place of b1.shape[1].
homologyRankOnly_Rows(b1, b2) ==
    LET rankB1 == IF size(b1) > 0 THEN matrix_rank(b1) ELSE 0
        rankB2 == IF size(b2) > 0 THEN matrix_rank(b2) ELSE 0
    IN  b1.nrows - rankB1 - rankB2

homologyRankOnly(b1, b2) ==
    LET rankB1 == IF size(b1) > 0 THEN matrix_rank(b1) ELSE 0
        rankB2 == IF size(b2) > 0 THEN matrix_rank(b2) ELSE 0
    IN  b1.ncols - rankB1 - rankB2

\* integerVertices(cplx1, cplx2): the vertices renamed 0, 1, ... in the
\* order the set of all of them is iterated.
VertsDict(cplx) ==
    LET vertslist == Iterate(UNION {Range(sp) : sp \in cplx})
    IN  {<<vertslist[i], i - 1>> : i \in 1 .. Len(vertslist)}

Rename(vertsdict, sp) ==
    [i \in 1 .. Len(sp) |-> (CHOOSE p \in vertsdict : p[1] = sp[i])[2]]

integerVertices(cplx1, cplx2) ==
    LET vertsdict == VertsDict(cplx1 \cup cplx2)
    IN  <<{Rename(vertsdict, sp) : sp \in cplx1}, {Rename(vertsdict, sp) : sp \in cplx2}>>

\* simplicialHomology(k, X, Y, rankOnly=True).  X and Y are lists of lists;
\* only the set of their members is read.  Y is None or Some(list).
simplicialHomology(k, X, Y) ==
    LET renamed == integerVertices(X, IF Y = None THEN {} ELSE Y[1])
        Xs == {sorted(value) : value \in renamed[1]}
        Ys == {sorted(value) : value \in renamed[2]}
        dk == boundary(Xs, k, Ys, None)
        dkp1 == boundary(Xs, k + 1, Ys, dk[2])
    IN  homologyRankOnly(dk[1], dkp1[1])

\* topology.betti: the complexes as lists of lists.
lists_from_complex(immutable) == {Iterate(x) : x \in immutable}

betti(index, xs, subspace) ==
    IF subspace # None
    THEN simplicialHomology(index, lists_from_complex(xs), Some(lists_from_complex(subspace[1])))
    ELSE simplicialHomology(index, lists_from_complex(xs), None)

-----------------------------------------------------------------------------
(* board.py: the board.  The Voronoi diagram of the reflected control      *)
(* points is a tessellation of the unit square into BOARD_SIZE cells whose *)
(* vertices have three edges each.  The model's tessellation has the same  *)
(* shape: a row of cells above a row of cells, the walls of the two rows   *)
(* at different abscissas.  Coordinates are integers: the square is        *)
(* [0, SquareWidth] x [0, 2], its side x = 0 the left one (-0.5 in the     *)
(* code) and its side y = 0 the lower one.                                 *)

SquareWidth == BOARD_SIZE

TopWalls == {2 * i : i \in 1 .. (((BOARD_SIZE + 1) \div 2) - 1)}

BottomWalls == {2 * i - 1 : i \in 1 .. ((BOARD_SIZE \div 2) - 1)}

\* voronoi.vertices: the list of the vertices' coordinates; the vertex at
\* position i of the list has the index i - 1.
VoronoiVertices ==
    Enumeration({<<x, 2>> : x \in {0, SquareWidth} \cup TopWalls}
                \cup {<<x, 1>> : x \in {0, SquareWidth} \cup TopWalls \cup BottomWalls}
                \cup {<<x, 0>> : x \in {0, SquareWidth} \cup BottomWalls})

\* first_index(array, value): the first index whose point is at value.
first_index(array, value) == Min({i \in 1 .. Len(array) : array[i] = value}) - 1

\* The indices of the vertices on the middle line with abscissa in lo..hi.
MiddleLine(lo, hi) ==
    LET xs == SortedOfSet({x \in {0, SquareWidth} \cup TopWalls \cup BottomWalls : lo <= x /\ x <= hi})
    IN  [i \in 1 .. Len(xs) |-> first_index(VoronoiVertices, <<xs[i], 1>>)]

\* voronoi.regions of the control points: each cell as the cycle of its
\* vertices.
TopCell(lo, hi) ==
    <<first_index(VoronoiVertices, <<lo, 2>>)>> \o MiddleLine(lo, hi)
        \o <<first_index(VoronoiVertices, <<hi, 2>>)>>

BottomCell(lo, hi) ==
    <<first_index(VoronoiVertices, <<hi, 0>>)>> \o Reverse(MiddleLine(lo, hi))
        \o <<first_index(VoronoiVertices, <<lo, 0>>)>>

CellsBetween(walls, top) ==
    LET xs == SortedOfSet({0, SquareWidth} \cup walls)
    IN  [i \in 1 .. (Len(xs) - 1) |->
            IF top THEN TopCell(xs[i], xs[i + 1]) ELSE BottomCell(xs[i], xs[i + 1])]

VoronoiCycles == CellsBetween(TopWalls, TRUE) \o CellsBetween(BottomWalls, FALSE)

\* border_edges(vs, es, pos, side): the edges with both ends on a side of
\* the square (pos 1 is x, pos 2 is y).
border_edges(vs, es, pos, side) ==
    {edge \in es : \A point \in edge : vs[point + 1][pos] = side}

\* Board.make_border: the two bases.  Each side's base is the fan over the
\* side's edges closed by the path through two outer corners.
make_border(vertices, one_cells) ==
    LET ul == first_index(vertices, <<0, 2>>)
        dl == first_index(vertices, <<0, 0>>)
        dr == first_index(vertices, <<SquareWidth, 0>>)
        ur == first_index(vertices, <<SquareWidth, 2>>)
        max_ind == Len(vertices)
        cul == max_ind
        cdl == max_ind + 1
        cdr == max_ind + 2
        cur == max_ind + 3
        left_c == <<ul, cul, cdl, dl>>
        right_c == <<dr, cdr, cur, ur>>
        down_c == <<dl, cdl, cdr, dr>>
        up_c == <<ur, cur, cul, ul>>
        left_faces == faces_from_edges(
            border_edges(vertices, one_cells, 1, 0) \cup outer_edges_from_cycle(left_c))
        right_faces == faces_from_edges(
            border_edges(vertices, one_cells, 1, SquareWidth) \cup outer_edges_from_cycle(right_c))
        down_faces == faces_from_edges(
            border_edges(vertices, one_cells, 2, 0) \cup outer_edges_from_cycle(down_c))
        up_faces == faces_from_edges(
            border_edges(vertices, one_cells, 2, 2) \cup outer_edges_from_cycle(up_c))
    IN  [blue_base |-> closure(down_faces \cup up_faces),
         red_base |-> closure(left_faces \cup right_faces),
         blue_base_cs |-> {up_c, down_c},
         red_base_cs |-> {left_c, right_c}]

\* Board.__init__
Board ==
    LET edges == edges_from_cycles(Range(VoronoiCycles))
        border == make_border(VoronoiVertices, edges)
    IN  [cycles |-> VoronoiCycles,
         blue_base |-> border.blue_base,
         red_base |-> border.red_base]

-----------------------------------------------------------------------------
(* game.py and gui.py: the game.                                           *)

Players == {"RED", "BLUE"}

\* A slip in Game.__init__: the cycle holds one player, who plays every turn.
Other_Same(p) == p

\* itertools.cycle over the two players
Other(p) == IF p = "RED" THEN "BLUE" ELSE "RED"

\* What Text shows before the first claim.
NewGame == [title |-> "New game!"]

\* A slip in add_cycle_to_player_complex: the territory is assigned the cell
\* region (=) where the code unites the two (|=).
add_cycle_to_player_complex_Assign(territory, c) == closure(face_from_cycle(c))

\* Game.add_cycle_to_player_complex: the new territory of a player.
add_cycle_to_player_complex(territory, c) ==
    LET cell_region == closure(face_from_cycle(c))
    IN  territory \cup cell_region

\* A slip in string_from_homology: the winner is decided by >= in place of >.
string_from_homology_Weak(self) ==
    LET h1b == betti(1, self.blue, None)
        h1r == betti(1, self.red, None)
        h1bb == betti(1, self.blue, Some(self.board.blue_base))
        h1rr == betti(1, self.red, Some(self.board.red_base))
    IN  [b_B |-> <<betti(0, self.blue, None), h1b>>,
         b_BB0 |-> <<betti(0, self.blue, Some(self.board.blue_base)), h1bb>>,
         b_R |-> <<betti(0, self.red, None), h1r>>,
         b_RR0 |-> <<betti(0, self.red, Some(self.board.red_base)), h1rr>>,
         winner |-> IF h1bb >= h1b THEN "winner: blue!"
                    ELSE IF h1rr >= h1r THEN "winner: red!" ELSE ""]

\* Game.string_from_homology: the eight Betti numbers and the winner line.
string_from_homology(self) ==
    LET h0b == betti(0, self.blue, None)
        h1b == betti(1, self.blue, None)
        h0r == betti(0, self.red, None)
        h1r == betti(1, self.red, None)
        h0bb == betti(0, self.blue, Some(self.board.blue_base))
        h1bb == betti(1, self.blue, Some(self.board.blue_base))
        h0rr == betti(0, self.red, Some(self.board.red_base))
        h1rr == betti(1, self.red, Some(self.board.red_base))
        winner == IF h1bb > h1b THEN "winner: blue!"
                  ELSE IF h1rr > h1r THEN "winner: red!" ELSE ""
    IN  [b_B |-> <<h0b, h1b>>, b_BB0 |-> <<h0bb, h1bb>>,
         b_R |-> <<h0r, h1r>>, b_RR0 |-> <<h0rr, h1rr>>,
         winner |-> winner]

\* No library call is under check in the game.
Idle == [call |-> "none"]

\* No board and no game while a library call is under check.
NoGame ==
    /\ board = [cycles |-> <<>>, blue_base |-> {}, red_base |-> {}]
    /\ blue = {}
    /\ red = {}
    /\ nextPlayer = "RED"
    /\ disabled = {}
    /\ text = NewGame

GameVars == <<board, blue, red, nextPlayer, disabled, text>>

\* The outcome of a call: what it raised ("none": it returned) and its value.
Outcome(call, raised, value) == [call |-> call, raised |-> raised, value |-> value]

Init ==
    /\ iterOrder \in IterOrders
    /\ board = Board
    /\ blue = board.blue_base
    /\ red = board.red_base
    /\ nextPlayer \in Players
    /\ disabled = {}
    /\ text = NewGame
    /\ input = Idle
    /\ output = Idle

\* A slip in update_territory: the polygon is filled but left enabled, so a
\* claimed cell still receives clicks.
claim_LeftEnabled(i) ==
    /\ nextPlayer' = Other(nextPlayer)
    /\ IF nextPlayer = "BLUE"
       THEN /\ blue' = add_cycle_to_player_complex(blue, board.cycles[i])
            /\ red' = red
       ELSE /\ red' = add_cycle_to_player_complex(red, board.cycles[i])
            /\ blue' = blue
    /\ disabled' = disabled
    /\ text' = string_from_homology([board |-> board, blue |-> blue', red |-> red'])
    /\ UNCHANGED <<iterOrder, board, input, output>>

\* CyclePolygon.claim, the <Button-1> handler of the polygon of cell i; a
\* disabled polygon receives no event.
claim(i) ==
    /\ i \notin disabled
    /\ nextPlayer' = Other(nextPlayer)
    /\ IF nextPlayer = "BLUE"
       THEN /\ blue' = add_cycle_to_player_complex(blue, board.cycles[i])
            /\ red' = red
       ELSE /\ red' = add_cycle_to_player_complex(red, board.cycles[i])
            /\ blue' = blue
    /\ disabled' = disabled \cup {i}
    /\ text' = string_from_homology([board |-> board, blue |-> blue', red |-> red'])
    /\ UNCHANGED <<iterOrder, board, input, output>>

Next == \E i \in 1 .. Len(board.cycles) : claim(i)

Spec == Init /\ [][Next]_vars

-----------------------------------------------------------------------------
(* The game's claims.                                                      *)

Game == [board |-> board, blue |-> blue, red |-> red]

BlueJoined == betti(1, blue, Some(board.blue_base)) > betti(1, blue, None)

RedJoined == betti(1, red, Some(board.red_base)) > betti(1, red, None)

\* C1: in every state the game reaches, string_from_homology reports blue as
\* the winner exactly when betti(1, blue, blue_base) > betti(1, blue), red
\* exactly when betti(1, red, red_base) > betti(1, red), and no winner
\* exactly when neither inequality holds; after a claim, that report is the
\* text shown.
C1_WinnerRule ==
    LET report == string_from_homology(Game)
    IN  /\ (report.winner = "winner: blue!") <=> BlueJoined
        /\ (report.winner = "winner: red!") <=> RedJoined
        /\ (report.winner = "") <=> (~BlueJoined /\ ~RedJoined)
        /\ disabled # {} => text = report

\* A state where red is reported the winner after both players have claimed.
C1_Witness ==
    /\ Cardinality(disabled) >= 3
    /\ text # NewGame
    /\ text.winner = "winner: red!"

\* C3: the bases stay what the board's construction made them, each
\* territory contains its player's base, and a claim only adds simplices to
\* a territory.
C3_BasesFixedTerritoriesGrow ==
    /\ [](/\ board = Board
          /\ board.blue_base \subseteq blue
          /\ board.red_base \subseteq red)
    /\ [][/\ board' = board
          /\ blue \subseteq blue'
          /\ red \subseteq red']_vars

\* A state where both players have added a cell to their territory.
C3_Witness ==
    /\ blue # board.blue_base
    /\ red # board.red_base
    /\ Cardinality(disabled) >= 2

-----------------------------------------------------------------------------
(* Calls of topology.py on enumerated arguments.                           *)

\* The non-empty simplices on the model's vertices.
Simplices == (SUBSET Verts) \ {{}}

\* Cell sets: the empty one and those of one or two simplices.
CellSets == {{}} \cup {{a, b} : a, b \in Simplices}

\* Cycles: the lists of distinct vertices, the empty one and the one-vertex
\* ones among them.
CycleLists ==
    UNION {{c \in [1 .. n -> Verts] : \A i, j \in 1 .. n : c[i] = c[j] => i = j} :
              n \in 0 .. NumVerts}

\* Edge sets: every set of two-vertex edges.
EdgeSets == SUBSET {e \in SUBSET Verts : Cardinality(e) = 2}

TopoInit ==
    /\ iterOrder \in IterOrders
    /\ NoGame
    /\ \/ \E xs \in CellSets : input = [call |-> "closure", arg |-> xs]
       \/ \E c \in CycleLists : input = [call |-> "edges_from_cycle", arg |-> c]
       \/ \E c \in CycleLists : input = [call |-> "face_from_cycle", arg |-> c]
       \/ \E es \in EdgeSets : input = [call |-> "faces_from_edges", arg |-> es]
    /\ output = Idle

CallClosure ==
    /\ input.call = "closure" /\ output = Idle
    /\ output' = Outcome("closure", "none", closure(input.arg))
    /\ UNCHANGED <<iterOrder, input>> /\ UNCHANGED GameVars

CallEdgesFromCycle ==
    /\ input.call = "edges_from_cycle" /\ output = Idle
    /\ output' = Outcome("edges_from_cycle", "none", edges_from_cycle(input.arg))
    /\ UNCHANGED <<iterOrder, input>> /\ UNCHANGED GameVars

CallFaceFromCycle ==
    /\ input.call = "face_from_cycle" /\ output = Idle
    /\ output' = Outcome("face_from_cycle", "none", face_from_cycle(input.arg))
    /\ UNCHANGED <<iterOrder, input>> /\ UNCHANGED GameVars

CallFacesFromEdges ==
    /\ input.call = "faces_from_edges" /\ output = Idle
    /\ output' = IF Raises_faces_from_edges(input.arg) = "none"
                 THEN Outcome("faces_from_edges", "none", faces_from_edges(input.arg))
                 ELSE Outcome("faces_from_edges", Raises_faces_from_edges(input.arg), None)
    /\ UNCHANGED <<iterOrder, input>> /\ UNCHANGED GameVars

TopoNext == CallClosure \/ CallEdgesFromCycle \/ CallFaceFromCycle \/ CallFacesFromEdges

SpecTopo == TopoInit /\ [][TopoNext]_vars

\* The vertices an edge path from the vertices S reaches in the complex X.
RECURSIVE Reach(_, _)
Reach(X, S) ==
    LET N == S \cup UNION {e \in X : e \cap S # {}}
    IN  IF N = S THEN S ELSE Reach(X, N)

\* An edge set that is exactly one simple cycle.
IsSimpleCycle(es) ==
    /\ es # {}
    /\ \A e \in es : Cardinality(e) = 2
    /\ \A v \in UNION es : Cardinality({e \in es : v \in e}) = 2
    /\ \A v \in UNION es : Reach(es, {v}) = UNION es

\* C5: closure(X) is exactly the set of the non-empty vertex subsets of the
\* simplices of X: every one of them, and nothing else (no empty simplex).
C5_ClosureIsNonemptySubsets ==
    output.call = "closure" =>
        output.value = {sub \in SUBSET Verts : sub # {} /\ \E x \in input.arg : sub \subseteq x}

\* C6: closure is idempotent: closure(closure(X)) = closure(X).
C6_ClosureIdempotent ==
    output.call = "closure" => closure(output.value) = output.value

\* closure has returned the closure of two simplices of which neither is a
\* face of the other.
C6_Witness ==
    /\ output.call = "closure"
    /\ \E a, b \in input.arg : ~(a \subseteq b) /\ ~(b \subseteq a) /\ Cardinality(a) >= 2
    /\ Cardinality(output.value) > Cardinality(input.arg)

\* C8: faces_from_edges is deterministic in its apex: on one simple cycle,
\* in whatever order the edges and the vertices of an edge are iterated, it
\* chooses the same apex and returns the same faces.
C8_ApexDeterministic ==
    (output.call = "faces_from_edges" /\ output.raised = "none" /\ IsSimpleCycle(input.arg)) =>
        \A order \in IterOrders : FacesFromEdgesIn(order, input.arg) = output.value

\* The malformed arguments: a cycle of fewer than two vertices, an edge set
\* that is not exactly one simple cycle.
Malformed ==
    \/ input.call \in {"edges_from_cycle", "face_from_cycle"} /\ Len(input.arg) < 2
    \/ input.call = "faces_from_edges" /\ ~IsSimpleCycle(input.arg)

\* C9: a call on a malformed argument fails with InvalidComplex and returns
\* no complex.
C9_MalformedRejected ==
    (output # Idle /\ Malformed) => (output.raised = "InvalidComplex" /\ output.value = None)

-----------------------------------------------------------------------------
(* Calls of betti on enumerated complexes.                                 *)

\* The reference complexes: a filled triangle, a hollow triangle given by
\* its three edges, two disjoint filled triangles.
FilledTriangle == closure({{0, 1, 2}})

HollowTriangle == {{0, 1}, {1, 2}, {2, 0}}

TwoTriangles == closure({{0, 1, 2}, {3, 4, 5}})

\* The complexes handed to betti: the closures of the cell sets, and the
\* reference complexes.
BettiComplexes ==
    {closure(xs) : xs \in CellSets} \cup {FilledTriangle, HollowTriangle, TwoTriangles}

\* The relative sets handed to betti with a complex X: none, one simplex of
\* X alone, the closure of one simplex of X.
RelativeSets(X) ==
    {None} \cup {Some({r}) : r \in X} \cup {Some(closure({r})) : r \in X}

BettiInit ==
    /\ iterOrder \in IterOrders
    /\ NoGame
    /\ \E X \in BettiComplexes : \E Y \in RelativeSets(X) :
           input = [call |-> "betti", arg |-> X, subspace |-> Y]
    /\ output = Idle

\* betti(0, X, Y) and betti(1, X, Y)
CallBetti ==
    /\ input.call = "betti" /\ output = Idle
    /\ output' = Outcome("betti", "none",
                         <<betti(0, input.arg, input.subspace), betti(1, input.arg, input.subspace)>>)
    /\ UNCHANGED <<iterOrder, input>> /\ UNCHANGED GameVars

BettiNext == CallBetti

SpecBetti == BettiInit /\ [][BettiNext]_vars

\* C4: betti returns (b0, b1) = (1, 0) for the filled triangle, (1, 1) for
\* the hollow triangle and (2, 0) for the two disjoint filled triangles.
C4_ReferenceBettiNumbers ==
    (output.call = "betti" /\ input.subspace = None) =>
        /\ input.arg = FilledTriangle => output.value = <<1, 0>>
        /\ input.arg = HollowTriangle => output.value = <<1, 1>>
        /\ input.arg = TwoTriangles => output.value = <<2, 0>>

\* betti has returned for the two disjoint triangles.
C4_Witness ==
    /\ output.call = "betti"
    /\ input.subspace = None
    /\ input.arg = TwoTriangles

\* A set of simplices that holds every non-empty face of its members.
IsFaceClosed(X) == \A x \in X : \A sub \in SUBSET x : sub # {} => sub \in X

\* C10 as stated: for a closed X and any subset Y of its simplices, closed
\* under faces or not, betti(0, X, Y) and betti(1, X, Y) are non-negative.
C10_NonNegativeAnySubset ==
    (output.call = "betti" /\ IsFaceClosed(input.arg) /\ input.subspace # None) =>
        (output.value[1] \in Nat /\ output.value[2] \in Nat)

\* Where C10 does hold: for a closed X and a subset Y of its simplices that
\* is itself closed under taking faces, betti(0, X, Y) and betti(1, X, Y) are
\* non-negative integers; betti(0, X, Y) is so for any subset Y.
C10_NonNegativeSubcomplex ==
    (output.call = "betti" /\ IsFaceClosed(input.arg) /\ input.subspace # None) =>
        /\ output.value[1] \in Nat
        /\ IsFaceClosed(input.subspace[1]) => output.value[2] \in Nat

\* betti has returned for a complex with a triangle relative to the closure
\* of one of its edges.
C10_Witness ==
    /\ output.call = "betti"
    /\ input.subspace # None
    /\ IsFaceClosed(input.arg)
    /\ IsFaceClosed(input.subspace[1])
    /\ \E t \in input.arg : Cardinality(t) = 3
    /\ \E e \in input.subspace[1] : Cardinality(e) = 2

-----------------------------------------------------------------------------
(* Calls of boundary on enumerated complexes, chained as simplicialHomology *)
(* chains them.                                                             *)

\* The complexes handed to boundary: the closures of the cell sets, each
\* simplex as its ascending tuple.
SortedComplexes == {{SortedOfSet(x) : x \in closure(xs)} : xs \in CellSets}

\* The excluded sets handed to boundary with X: nothing, or one simplex of X.
ExcludedSets(X) == {{}} \cup {{t} : t \in X}

Dimensions == 0 .. 2

BoundaryInit ==
    /\ iterOrder \in IterOrders
    /\ NoGame
    /\ \E X \in SortedComplexes : \E Y \in ExcludedSets(X) : \E k \in Dimensions :
           input = [call |-> "boundary", arg |-> X, relative |-> Y, k |-> k]
    /\ output = Idle

\* dk, km1chain = boundary(X, k, Y); dkp1, _ = boundary(X, k + 1, Y, km1chain)
CallBoundary ==
    /\ input.call = "boundary" /\ output = Idle
    /\ LET dk == boundary(input.arg, input.k, input.relative, None)
           dkp1 == boundary(input.arg, input.k + 1, input.relative, dk[2])
       IN  output' = Outcome("boundary", "none", <<dk, dkp1>>)
    /\ UNCHANGED <<iterOrder, input>> /\ UNCHANGED GameVars

BoundaryNext == CallBoundary

SpecBoundary == BoundaryInit /\ [][BoundaryNext]_vars

\* The sum of x * a[r, j] over the entries <<j, x>> of a sparse column.
RECURSIVE DotColumn(_, _, _)
DotColumn(a, r, col) ==
    IF col = {} THEN 0
    ELSE LET p == CHOOSE q \in col : TRUE
         IN  p[2] * Entry(a, r, p[1]) + DotColumn(a, r, col \ {p})

\* C7: for a closed complex X of ascending simplices and k >= 1, every
\* column of boundary(X, k) * boundary(X, k+1) is defined and zero, the rows
\* of boundary(X, k+1) being indexed by the k-chain of boundary(X, k).
C7_BoundaryOfBoundaryIsZero ==
    (output.call = "boundary" /\ input.k >= 1 /\ input.relative = {}) =>
        LET dk == output.value[1][1]
            dkp1 == output.value[2][1]
        IN  \A c \in 1 .. dkp1.ncols :
                /\ dkp1.nrows = dk.ncols
                /\ \A r \in 1 .. dk.nrows : DotColumn(dk, r, dkp1.cols[c]) = 0

\* Both matrices have been built for a complex with a tetrahedron: four
\* triangles over six edges.
C7_Witness ==
    /\ output.call = "boundary"
    /\ input.k = 1
    /\ input.relative = {}
    /\ output.value[1][1].ncols = 6
    /\ output.value[2][1].ncols = 4
    /\ \A c \in 1 .. 4 : Cardinality(output.value[2][1].cols[c]) = 3

-----------------------------------------------------------------------------
(* The relative win test on enumerated bases and territories: the two      *)
(* calls of betti that string_from_homology makes for one player.          *)

\* A piece of a base: the closure of one simplex, or, from a triangle up,
\* that closure without the simplex itself (its hollow boundary).
Pieces(a) ==
    {closure({a})} \cup (IF Cardinality(a) >= 3 THEN {closure({a}) \ {a}} ELSE {})

\* The bases: one piece around vertex 0, one around the last vertex, with no
\* vertex in common.
Bases ==
    {<<P, Q>> : <<P, Q>> \in UNION {Pieces(a) \X Pieces(b) : <<a, b>> \in
        {<<c, d>> \in Simplices \X Simplices :
            0 \in c /\ (NumVerts - 1) \in d /\ c \cap d = {}}}}

RelativeInit ==
    /\ iterOrder \in IterOrders
    /\ NoGame
    /\ \E pieces \in Bases : \E xs \in CellSets :
           input = [call |-> "relative", pieces |-> pieces,
                    base |-> pieces[1] \cup pieces[2],
                    arg |-> pieces[1] \cup pieces[2] \cup closure(xs)]
    /\ output = Idle

\* betti(1, X, B) and betti(1, X)
CallRelative ==
    /\ input.call = "relative" /\ output = Idle
    /\ output' = Outcome("relative", "none",
                         [rel |-> betti(1, input.arg, Some(input.base)),
                          abs |-> betti(1, input.arg, None)])
    /\ UNCHANGED <<iterOrder, input>> /\ UNCHANGED GameVars

RelativeNext == CallRelative

SpecRelative == RelativeInit /\ [][RelativeNext]_vars

\* The two pieces of the base lie in one connected component of X.
PiecesJoined ==
    (NumVerts - 1) \in Reach({e \in input.arg : Cardinality(e) = 2}, {0})

\* C2 as stated: for a base B of two disjoint closed pieces and a closed X
\* containing B, betti(1, X, B) > betti(1, X) exactly when the two pieces lie
\* in the same connected component of X.
C2_RelativeWinIffJoined ==
    output.call = "relative" => ((output.value.rel > output.value.abs) <=> PiecesJoined)

\* C2 as amended: betti(1, X, B) > betti(1, X) never holds when the pieces
\* are not connected through X, and, for a base without a loop of its own
\* (betti(1, B) = 0), it holds exactly when the two pieces lie in the same
\* connected component of X.
C2_RelativeWinIffJoinedLooplessBase ==
    output.call = "relative" =>
        /\ ~PiecesJoined => ~(output.value.rel > output.value.abs)
        /\ betti(1, input.base, None) = 0 =>
               ((output.value.rel > output.value.abs) <=> PiecesJoined)

\* The test has come out positive for two edges joined by a third cell while
\* the territory holds more than the base.
C2_Witness ==
    /\ output.call = "relative"
    /\ \A i \in 1 .. 2 : \E e \in input.pieces[i] : Cardinality(e) = 2
    /\ betti(1, input.base, None) = 0
    /\ input.arg # input.base
    /\ PiecesJoined
    /\ output.value.rel > output.value.abs

-----------------------------------------------------------------------------
(* The entries of one boundary matrix.                                     *)

\* (-1)^i for the position i (from 0) of vertex v among the ascending
\* vertices of a simplex.
SignOfOmitted(splx, v) ==
    IF Cardinality({w \in Range(splx) : w < v}) % 2 = 0 THEN 1 ELSE -1

\* C11: for k >= 1 and both chains non-empty, boundary(X, k, Y) has one
\* column per k-simplex outside Y and one row per (k-1)-simplex outside Y (a
\* face in Y has no row); the column of [v0..vk] holds (-1)^i in the row of
\* its face without vi, 0 in every other row, and nothing but -1, 0, +1.
C11_BoundaryEntries ==
    LET X == input.arg
        Y == input.relative
        k == input.k
        simplices(n) == {t \in X : Len(t) = n + 1} \ Y
        km1chain == ksimplices(X, k - 1, Y)
    IN  (output.call = "boundary" /\ k >= 1 /\ simplices(k) # {} /\ simplices(k - 1) # {}) =>
            /\ output.value[1][2] # None
            /\ LET bndry == output.value[1][1]
                   kchain == output.value[1][2][1]
               IN  /\ bndry.ncols = Cardinality(simplices(k))
                   /\ Len(kchain) = bndry.ncols /\ Range(kchain) = simplices(k)
                   /\ bndry.nrows = Cardinality(simplices(k - 1))
                   /\ Len(km1chain) = bndry.nrows /\ Range(km1chain) = simplices(k - 1)
                   /\ \A c \in 1 .. bndry.ncols :
                          /\ \A p \in bndry.cols[c] : p[1] \in 1 .. bndry.nrows /\ p[2] \in {-1, 1}
                          /\ \A r \in 1 .. bndry.nrows :
                                 LET gone == Range(kchain[c]) \ Range(km1chain[r])
                                 IN  Entry(bndry, r, c) =
                                         IF Range(km1chain[r]) \subseteq Range(kchain[c])
                                         THEN SignOfOmitted(kchain[c], CHOOSE v \in gone : TRUE)
                                         ELSE 0

\* A matrix has been built for triangles one of whose edges is excluded: the
\* column of such a triangle holds two entries, not three.
C11_Witness ==
    /\ output.call = "boundary"
    /\ input.k = 2
    /\ \E e \in input.relative : Len(e) = 2
    /\ output.value[1][2] # None
    /\ \E c \in 1 .. output.value[1][1].ncols :
           /\ \E e \in input.relative : Range(e) \subseteq Range(output.value[1][2][1][c])
           /\ Cardinality(output.value[1][1].cols[c]) = 2

-----------------------------------------------------------------------------
(* Calls of ksimplices on cells that list their vertices in any order.     *)

MaxCellLen == 3

\* A cell as a caller may list it: distinct vertices in any order.
CellLists ==
    UNION {{c \in [1 .. n -> Verts] : \A i, j \in 1 .. n : c[i] = c[j] => i = j} :
           n \in 1 .. MaxCellLen}

\* The lists of cells handed to ksimplices: one cell or two.
ToplexLists == {{a, b} : a, b \in CellLists}

KsimplicesInit ==
    /\ iterOrder \in IterOrders
    /\ NoGame
    /\ \E toplexes \in ToplexLists : \E k \in Dimensions :
       \E relative \in {None} \cup {Some({t}) : t \in toplexes} :
           input = [call |-> "ksimplices", arg |-> toplexes, k |-> k, relative |-> relative]
    /\ output = Idle

\* ksimplices(toplexes, k, relative)
CallKsimplices ==
    /\ input.call = "ksimplices" /\ output = Idle
    /\ output' = Outcome("ksimplices", "none",
                         ksimplices(input.arg, input.k,
                                    IF input.relative = None THEN {} ELSE input.relative[1]))
    /\ UNCHANGED <<iterOrder, input>> /\ UNCHANGED GameVars

KsimplicesNext == CallKsimplices

SpecKsimplices == KsimplicesInit /\ [][KsimplicesNext]_vars

\* C12: ksimplices returns, each exactly once, the (k+1)-vertex subsets of
\* the cells whose vertex set is not the vertex set of a member of relative,
\* however the cells and relative list their vertices.
C12_KsimplicesByVertexSet ==
    output.call = "ksimplices" =>
        LET excluded == IF input.relative = None THEN {}
                        ELSE {Range(t) : t \in input.relative[1]}
            wanted == {S \in SUBSET Verts :
                          /\ Cardinality(S) = input.k + 1
                          /\ \E cell \in input.arg : S \subseteq Range(cell)
                          /\ S \notin excluded}
        IN  /\ {Range(t) : t \in Range(output.value)} = wanted
            /\ Len(output.value) = Cardinality(wanted)

-----------------------------------------------------------------------------
(* The order of play and the stability of a win.                           *)

\* The claimed cells whose triangles lie in the territory of player p.
ClaimedBy(p) ==
    {i \in disabled :
        face_from_cycle(board.cycles[i]) \subseteq (IF p = "BLUE" THEN blue ELSE red)}

\* C13: the player that Game.player() returns next is always RED or BLUE,
\* each claim is made by that player and hands the turn to the other one,
\* every claimed cell belongs to exactly one player, and the numbers of
\* cells the two players have claimed differ by at most one.
C13_TurnsAlternate ==
    /\ [](/\ nextPlayer \in {"RED", "BLUE"}
          /\ ClaimedBy("RED") \cup ClaimedBy("BLUE") = disabled
          /\ ClaimedBy("RED") \cap ClaimedBy("BLUE") = {}
          /\ Cardinality(ClaimedBy("RED")) - Cardinality(ClaimedBy("BLUE")) \in {-1, 0, 1})
    /\ [][/\ nextPlayer' # nextPlayer
          /\ nextPlayer' \in {"RED", "BLUE"}
          /\ \A i \in disabled' \ disabled :
                 face_from_cycle(board.cycles[i]) \subseteq
                     (IF nextPlayer = "BLUE" THEN blue' ELSE red')]_vars

\* Three cells have been claimed, two of them by the player that began.
C13_Witness ==
    /\ Cardinality(disabled) = 3
    /\ Cardinality(ClaimedBy(nextPlayer)) = 1
    /\ Cardinality(ClaimedBy(Other(nextPlayer))) = 2

\* C14: once string_from_homology names a winner, it names the same winner
\* after every further claim.
C14_WinStable ==
    [][LET named == string_from_homology(Game).winner
       IN  named # "" =>
               string_from_homology([board |-> board', blue |-> blue', red |-> red']).winner
                   = named]_vars

\* A winner is named while a cell is still unclaimed, and the winner line
\* shown is the one of the state.
C14_Witness ==
    /\ string_from_homology(Game).winner # ""
    /\ text = string_from_homology(Game)
    /\ Cardinality(disabled) < Len(board.cycles)
    /\ Cardinality(disabled) >= 3

====
